---- MODULE Spec2Model ----
(***************************************************************************)
(* Model of the chess_bet_escrow program                                   *)
(* (src/solana/programs/chess_bet_escrow/src/lib.rs).                       *)
(*                                                                         *)
(* The state is the Config account, the Game accounts (one per derived     *)
(* address), and the lamport balance of every account.  Each instruction   *)
(* is one action; an instruction that returns an error is rolled back by   *)
(* the runtime, so a failing call changes nothing but the record of the    *)
(* last call (variable last), which carries the error it returned.         *)
(* Rent is left out: the balance of a game account is the value it holds    *)
(* beyond what account creation put there.                                 *)
(***************************************************************************)
EXTENDS Integers, FiniteSets, Sequences, TLC

VARIABLES cfg, games, lamports, last

vars == <<cfg, games, lamports, last>>

\* ---------------------------------------------------------------- bounds
MaxGames == 2
MaxStake == 2
InitLamports == 2

\* u64, scaled down to 8 bits so that the model checker can hold it.
U64_MAX == 255

\* ------------------------------------------------------------ identities
\* Keys that can sign a request.
Signers == {"a", "b"}

\* Pubkey::default(): the "unset" player2 and the draw / unresolved winner.
DefaultKey == "default"

\* The signer of the initialize request.
Deployer == "a"

\* A key that holds no wallet and signs nothing.
Outsider == "x"

\* Values for a Pubkey argument: the resolver of set_resolver ...
Pubkeys == Signers \cup {DefaultKey}

\* ... and the winner of resolve_game.
WinnerKeys == Pubkeys \cup {Outsider}

GameIds == 1..MaxGames

\* Address of the game account derived from the seeds ("game", config, id).
game_pda(game_id) == "game" \o ToString(game_id)

GameAccounts == {game_pda(g) : g \in GameIds}

\* Accounts that hold lamports: the signers' wallets and the game accounts.
Accounts == Signers \cup GameAccounts

\* The accounts that exist: the wallets and the game accounts created so far.
ExistingAccounts == Signers \cup {game_pda(g) : g \in {h \in GameIds : games[h].exists}}

\* A derived address at which no Game account has been created.
NoGame == [exists |-> FALSE]

Exists(g) == g \in GameIds /\ games[g].exists

\* ------------------------------------------------------------ arithmetic
Overflow == -1

checked_add(a, b) == IF a > U64_MAX - b THEN Overflow ELSE a + b

checked_mul_wrapping(a, b) == (a * b) % (U64_MAX + 1)

checked_mul(a, b) == IF b # 0 /\ a > U64_MAX \div b THEN Overflow ELSE a * b

\* system_program::transfer and the direct lamport moves: amount goes from
\* one account to another.
MoveLamports(bal, from, to, amount) ==
    IF from = to THEN bal
    ELSE [bal EXCEPT ![from] = @ - amount, ![to] = @ + amount]

\* ------------------------------------------------------------ initialize
initialize_cfg(owner) ==
    [owner |-> owner, resolver |-> DefaultKey, game_counter |-> 0]

Call(op, caller, game_id, key, stake, err) ==
    [op |-> op, caller |-> caller, game_id |-> game_id, key |-> key,
     stake |-> stake, err |-> err]

Init ==
    /\ cfg = initialize_cfg(Deployer)
    /\ last = Call("initialize", Deployer, 0, DefaultKey, 0, "Ok")
    /\ games = [g \in GameIds |-> NoGame]
    /\ lamports = [acc \in Accounts |-> IF acc \in Signers THEN InitLamports ELSE 0]

\* ---------------------------------------------------------- set_resolver
set_resolver_err_anyone(caller) == "Ok"

set_resolver_err(caller) ==
    IF cfg.owner # caller THEN "NotOwner" ELSE "Ok"

set_resolver_writes_owner(caller, resolver) ==
    LET err == set_resolver_err(caller) IN
    /\ cfg' = IF err = "Ok" THEN [cfg EXCEPT !.owner = resolver] ELSE cfg
    /\ last' = Call("set_resolver", caller, 0, resolver, 0, err)
    /\ UNCHANGED <<games, lamports>>

set_resolver(caller, resolver) ==
    LET err == set_resolver_err(caller) IN
    /\ cfg' = IF err = "Ok" THEN [cfg EXCEPT !.resolver = resolver] ELSE cfg
    /\ last' = Call("set_resolver", caller, 0, resolver, 0, err)
    /\ UNCHANGED <<games, lamports>>

\* ---------------------------------------------------------- create_lobby
\* The init constraint on the game account runs before the handler body: it
\* fails when an account already exists at the derived address.
create_lobby_err_no_id_check(caller, game_id, stake_lamports) ==
    IF Exists(game_id) THEN "AccountAlreadyInUse"
    ELSE IF ~(stake_lamports > 0) THEN "StakeTooLow"
    ELSE IF game_id \notin GameIds THEN "BadGameId"
    ELSE IF lamports[caller] < stake_lamports THEN "InsufficientFunds"
    ELSE "Ok"

create_lobby_err_no_stake_check(caller, game_id, stake_lamports) ==
    LET expected_id == checked_add(cfg.game_counter, 1) IN
    IF Exists(game_id) THEN "AccountAlreadyInUse"
    ELSE IF expected_id = Overflow THEN "Overflow"
    ELSE IF game_id # expected_id THEN "BadGameId"
    ELSE IF lamports[caller] < stake_lamports THEN "InsufficientFunds"
    ELSE "Ok"

create_lobby_err_off_by_one(caller, game_id, stake_lamports) ==
    IF Exists(game_id) THEN "AccountAlreadyInUse"
    ELSE IF ~(stake_lamports > 0) THEN "StakeTooLow"
    ELSE IF game_id \notin GameIds \/ game_id # cfg.game_counter THEN "BadGameId"
    ELSE IF lamports[caller] < stake_lamports THEN "InsufficientFunds"
    ELSE "Ok"

create_lobby_err(caller, game_id, stake_lamports) ==
    LET expected_id == checked_add(cfg.game_counter, 1) IN
    IF Exists(game_id) THEN "AccountAlreadyInUse"
    ELSE IF ~(stake_lamports > 0) THEN "StakeTooLow"
    ELSE IF expected_id = Overflow THEN "Overflow"
    ELSE IF game_id # expected_id THEN "BadGameId"
    ELSE IF lamports[caller] < stake_lamports THEN "InsufficientFunds"
    ELSE "Ok"

create_lobby_counter_stale(game_id) == cfg.game_counter

create_lobby_counter(game_id) == checked_add(cfg.game_counter, 1)

create_lobby_game(caller, game_id, stake_lamports) ==
    [exists |-> TRUE,
     game_id |-> game_id,
     player1 |-> caller,
     player2 |-> DefaultKey,
     bet_lamports |-> stake_lamports,
     active |-> TRUE,
     winner |-> DefaultKey]

create_lobby_partial_write(caller, game_id, stake_lamports) ==
    LET err == create_lobby_err(caller, game_id, stake_lamports) IN
    /\ last' = Call("create_lobby", caller, game_id, DefaultKey, stake_lamports, err)
    /\ IF err = "Ok"
       THEN /\ cfg' = [cfg EXCEPT !.game_counter = create_lobby_counter(game_id)]
            /\ games' = [games EXCEPT ![game_id] =
                            create_lobby_game(caller, game_id, stake_lamports)]
            /\ lamports' = MoveLamports(lamports, caller, game_pda(game_id),
                                        stake_lamports)
       ELSE IF err = "InsufficientFunds"
       THEN /\ cfg' = [cfg EXCEPT !.game_counter = create_lobby_counter(game_id)]
            /\ UNCHANGED <<games, lamports>>
       ELSE UNCHANGED <<cfg, games, lamports>>

create_lobby(caller, game_id, stake_lamports) ==
    LET err == create_lobby_err(caller, game_id, stake_lamports) IN
    /\ last' = Call("create_lobby", caller, game_id, DefaultKey, stake_lamports, err)
    /\ IF err = "Ok"
       THEN /\ cfg' = [cfg EXCEPT !.game_counter = create_lobby_counter(game_id)]
            /\ games' = [games EXCEPT ![game_id] =
                            create_lobby_game(caller, game_id, stake_lamports)]
            /\ lamports' = MoveLamports(lamports, caller, game_pda(game_id),
                                        stake_lamports)
       ELSE UNCHANGED <<cfg, games, lamports>>

\* ------------------------------------------------------------ join_lobby
join_lobby_err_opponent_first(caller, g) ==
    LET game == games[g] IN
    IF game.player2 # DefaultKey THEN "LobbyHasOpponent"
    ELSE IF ~game.active THEN "GameNotActive"
    ELSE IF ~(game.bet_lamports > 0) THEN "StakeTooLow"
    ELSE IF lamports[caller] < game.bet_lamports THEN "InsufficientFunds"
    ELSE "Ok"

join_lobby_err_no_opponent_check(caller, g) ==
    LET game == games[g] IN
    IF ~game.active THEN "GameNotActive"
    ELSE IF ~(game.bet_lamports > 0) THEN "StakeTooLow"
    ELSE IF lamports[caller] < game.bet_lamports THEN "InsufficientFunds"
    ELSE "Ok"

join_lobby_err(caller, g) ==
    LET game == games[g] IN
    IF ~game.active THEN "GameNotActive"
    ELSE IF game.player2 # DefaultKey THEN "LobbyHasOpponent"
    ELSE IF ~(game.bet_lamports > 0) THEN "StakeTooLow"
    ELSE IF lamports[caller] < game.bet_lamports THEN "InsufficientFunds"
    ELSE "Ok"

join_lobby(caller, g) ==
    LET err == join_lobby_err(caller, g) IN
    /\ last' = Call("join_lobby", caller, g, DefaultKey, 0, err)
    /\ IF err = "Ok"
       THEN /\ lamports' = MoveLamports(lamports, caller, game_pda(g),
                                        games[g].bet_lamports)
            /\ games' = [games EXCEPT ![g].player2 = caller]
       ELSE UNCHANGED <<games, lamports>>
    /\ UNCHANGED cfg

\* ---------------------------------------------------------- cancel_lobby
cancel_lobby_err_no_opponent_check(caller, g) ==
    LET game == games[g] IN
    IF ~game.active THEN "GameNotActive"
    ELSE IF game.player1 # caller THEN "NotCreator"
    ELSE IF ~(game.bet_lamports > 0) THEN "StakeTooLow"
    ELSE IF lamports[game_pda(g)] < game.bet_lamports THEN "ArithmeticOverflow"
    ELSE "Ok"

cancel_lobby_err_no_creator_check(caller, g) ==
    LET game == games[g] IN
    IF ~game.active THEN "GameNotActive"
    ELSE IF game.player2 # DefaultKey THEN "LobbyHasOpponent"
    ELSE IF ~(game.bet_lamports > 0) THEN "StakeTooLow"
    ELSE IF lamports[game_pda(g)] < game.bet_lamports THEN "ArithmeticOverflow"
    ELSE "Ok"

cancel_lobby_err(caller, g) ==
    LET game == games[g] IN
    IF ~game.active THEN "GameNotActive"
    ELSE IF game.player2 # DefaultKey THEN "LobbyHasOpponent"
    ELSE IF game.player1 # caller THEN "NotCreator"
    ELSE IF ~(game.bet_lamports > 0) THEN "StakeTooLow"
    ELSE IF lamports[game_pda(g)] < game.bet_lamports THEN "ArithmeticOverflow"
    ELSE "Ok"

cancel_lobby(caller, g) ==
    LET err == cancel_lobby_err(caller, g) IN
    /\ last' = Call("cancel_lobby", caller, g, DefaultKey, 0, err)
    /\ IF err = "Ok"
       THEN /\ lamports' = MoveLamports(lamports, game_pda(g), caller,
                                        games[g].bet_lamports)
            /\ games' = [games EXCEPT ![g].active = FALSE]
       ELSE UNCHANGED <<games, lamports>>
    /\ UNCHANGED cfg

\* ---------------------------------------------------------- resolve_game
resolve_authorized_anyone(caller) == TRUE

resolve_authorized(caller) == caller = cfg.owner \/ caller = cfg.resolver

is_participant_any(game, winner) == TRUE

is_participant(game, winner) == winner = game.player1 \/ winner = game.player2

\* player1_acc, player2_acc and winner_acc are the accounts the caller
\* passes as player1, player2 and winner_account; none is compared with the
\* record.  A passed account that is the game account itself cannot be
\* borrowed while the game's lamports are borrowed.
resolve_game_err(caller, g, winner, player1_acc, player2_acc, winner_acc) ==
    LET game == games[g]
        stake == game.bet_lamports
        total_prize == checked_mul(stake, 2)
    IN
    IF ~resolve_authorized(caller) THEN "NotOwnerOrResolver"
    ELSE IF ~game.active THEN "GameNotActive"
    ELSE IF ~(game.player2 # DefaultKey) THEN "GameNotReady"
    ELSE IF total_prize = Overflow THEN "Overflow"
    ELSE IF winner = DefaultKey THEN
        IF ~(stake > 0) THEN "StakeTooLow"
        ELSE IF ~(lamports[game_pda(g)] >= total_prize) THEN "InsufficientEscrow"
        ELSE IF player1_acc = game_pda(g) \/ player2_acc = game_pda(g)
             THEN "AccountBorrowFailed"
        ELSE "Ok"
    ELSE IF is_participant(game, winner) THEN
        IF ~(lamports[game_pda(g)] >= total_prize) THEN "InsufficientEscrow"
        ELSE IF winner_acc = game_pda(g) THEN "AccountBorrowFailed"
        ELSE "Ok"
    ELSE "InvalidWinner"

resolve_game_lamports(g, winner, player1_acc, player2_acc, winner_acc) ==
    LET stake == games[g].bet_lamports
        total_prize == checked_mul(stake, 2)
    IN
    IF winner = DefaultKey
    THEN MoveLamports(MoveLamports(lamports, game_pda(g), player1_acc, stake),
                      game_pda(g), player2_acc, stake)
    ELSE MoveLamports(lamports, game_pda(g), winner_acc, total_prize)

resolve_game_record_stays_active(game, winner) ==
    [game EXCEPT !.winner = winner]

resolve_game_record(game, winner) ==
    [game EXCEPT !.winner = winner, !.active = FALSE]

resolve_game(caller, g, winner, player1_acc, player2_acc, winner_acc) ==
    LET err == resolve_game_err(caller, g, winner, player1_acc, player2_acc,
                                winner_acc) IN
    /\ last' = Call("resolve_game", caller, g, winner, 0, err)
    /\ IF err = "Ok"
       THEN /\ lamports' = resolve_game_lamports(g, winner, player1_acc,
                                                 player2_acc, winner_acc)
            /\ games' = [games EXCEPT ![g] = resolve_game_record(games[g], winner)]
       ELSE UNCHANGED <<games, lamports>>
    /\ UNCHANGED cfg

\* ------------------------------------------------------------------ Next
\* The accounts a resolve_game request can pass in one payout slot.  A slot is
\* varied only in the requests that read it: those that reach the payout,
\* player1 and player2 for a draw and winner_account otherwise; it is then
\* any account that exists.  In every other request the slot is never read
\* and one value stands for all.
ReachesPayout(caller, g, winner) ==
    /\ Exists(g)
    /\ resolve_authorized(caller)
    /\ games[g].active
    /\ games[g].player2 # DefaultKey
    /\ winner = DefaultKey \/ is_participant(games[g], winner)

PayoutAccounts(caller, g, winner, draw_slot) ==
    IF ReachesPayout(caller, g, winner) /\ (winner = DefaultKey) = draw_slot
    THEN ExistingAccounts
    ELSE {Deployer}

SetResolver ==
    \E caller \in Signers, resolver \in Pubkeys : set_resolver(caller, resolver)

CreateLobby ==
    \E caller \in Signers, game_id \in 0..MaxGames, stake \in 0..MaxStake :
        create_lobby(caller, game_id, stake)

JoinLobby ==
    \E caller \in Signers, g \in GameIds : Exists(g) /\ join_lobby(caller, g)

CancelLobby ==
    \E caller \in Signers, g \in GameIds : Exists(g) /\ cancel_lobby(caller, g)

ResolveGame ==
    \E caller \in Signers, g \in GameIds, winner \in WinnerKeys :
        \E player1_acc \in PayoutAccounts(caller, g, winner, TRUE),
           player2_acc \in PayoutAccounts(caller, g, winner, TRUE),
           winner_acc \in PayoutAccounts(caller, g, winner, FALSE) :
            /\ Exists(g)
            /\ resolve_game(caller, g, winner, player1_acc, player2_acc, winner_acc)

Next == SetResolver \/ CreateLobby \/ JoinLobby \/ CancelLobby \/ ResolveGame

Spec == Init /\ [][Next]_vars

\* ------------------------------------------------------ lifecycle states
Open(g) == Exists(g) /\ games[g].active /\ games[g].player2 = DefaultKey

Ready(g) == Exists(g) /\ games[g].active /\ games[g].player2 # DefaultKey

Cancelled(g) == Exists(g) /\ ~games[g].active /\ games[g].player2 = DefaultKey

Resolved(g) == Exists(g) /\ ~games[g].active /\ games[g].player2 # DefaultKey

\* The escrow holding of game g.
Holding(g) == lamports[game_pda(g)]

\* The step is a request of kind op (last' describes the request of a step).
Did(op) == last'.op = op

Succeeded(op) == last'.op = op /\ last'.err = "Ok"

NothingChanged == UNCHANGED <<cfg, games, lamports>>

\* ---------------------------------------------------------------- claims

\* C1: a successful resolve_game on a Ready game whose winner argument is the
\* record's player1 or player2 raises the balance of that participant's own
\* account by exactly 2 * stake and raises no other balance, whatever
\* payout accounts the request carries.
C1_WinnerTakesAll ==
    [][\A g \in GameIds :
          (Ready(g) /\ Succeeded("resolve_game") /\ last'.game_id = g
              /\ last'.key # DefaultKey)
          => /\ lamports'[last'.key] = lamports[last'.key] + 2 * games[g].bet_lamports
             /\ \A acc \in Accounts \ {last'.key} : lamports'[acc] <= lamports[acc]]_vars

\* C2: a successful resolve_game on a Ready game with the draw sentinel as
\* winner raises the balance of the record's player1 by stake and of its
\* player2 by stake (2 * stake when they are the same key) and raises no
\* other balance, whatever payout accounts the request carries.
C2_DrawSplitsStake ==
    [][\A g \in GameIds :
          (Ready(g) /\ Succeeded("resolve_game") /\ last'.game_id = g
              /\ last'.key = DefaultKey)
          => LET p1 == games[g].player1
                 p2 == games[g].player2
                 stake == games[g].bet_lamports
             IN
             /\ \A acc \in {p1, p2} :
                   lamports'[acc] = lamports[acc]
                                    + (IF p1 = p2 THEN 2 * stake ELSE stake)
             /\ \A acc \in Accounts \ {p1, p2} : lamports'[acc] <= lamports[acc]]_vars

\* C3: in every reachable state the escrow holding of a game is stake when
\* the game is Open, 2 * stake when it is Ready, and 0 when it is Cancelled
\* or Resolved.
C3_HoldingByState ==
    \A g \in GameIds :
        Exists(g) =>
            Holding(g) = (IF Open(g) THEN games[g].bet_lamports
                          ELSE IF Ready(g) THEN 2 * games[g].bet_lamports
                          ELSE 0)

\* C4: the ids of the existing games are exactly 1..game_counter, each record
\* stores its own id; a successful create_lobby raises game_counter by
\* exactly 1 and stores the new counter as game_id; no other step changes
\* game_counter.
C4_SequentialIds ==
    /\ [](/\ {g \in GameIds : games[g].exists} = 1..cfg.game_counter
          /\ \A g \in GameIds : games[g].exists => games[g].game_id = g)
    /\ [][IF Succeeded("create_lobby")
          THEN /\ cfg'.game_counter = cfg.game_counter + 1
               /\ last'.game_id = cfg'.game_counter
               /\ ~games[last'.game_id].exists
               /\ games'[last'.game_id].exists
               /\ games'[last'.game_id].game_id = cfg'.game_counter
          ELSE cfg'.game_counter = cfg.game_counter]_vars

\* C4 witness: two games have been created, the second by the last request.
C4_Witness ==
    /\ cfg.game_counter = 2
    /\ last.op = "create_lobby" /\ last.err = "Ok" /\ last.game_id = 2
    /\ games[1].exists /\ games[2].exists

\* C5: a resolve_game request succeeds only when its caller is the stored
\* owner or the stored resolver; from any other caller it fails with
\* NotOwnerOrResolver and changes no record and no balance, whatever the
\* state of the game and the winner argument.
C5_ResolveNeedsAuthority ==
    [][Did("resolve_game") =>
          LET authorised == last'.caller \in {cfg.owner, cfg.resolver} IN
          /\ last'.err = "Ok" => authorised
          /\ ~authorised => last'.err = "NotOwnerOrResolver" /\ NothingChanged]_vars

\* C5 witness: a caller that is neither owner nor resolver has just been
\* refused on a Ready game, with a participant named as winner.
C5_Witness ==
    /\ last.op = "resolve_game" /\ last.err = "NotOwnerOrResolver"
    /\ last.caller \notin {cfg.owner, cfg.resolver}
    /\ Ready(last.game_id)
    /\ last.key = games[last.game_id].player1

\* C6: once a game is Cancelled or Resolved, no step changes any field of its
\* record or its escrow holding.
C6_TerminalIsFrozen ==
    [][\A g \in GameIds :
          (Cancelled(g) \/ Resolved(g))
          => games'[g] = games[g] /\ Holding(g)' = Holding(g)]_vars

\* C7: resolve_game by the owner or resolver on a Ready game with a winner
\* that is neither the draw sentinel nor player1 nor player2 fails with
\* InvalidWinner and changes no record and no balance.
C7_InvalidWinnerRejected ==
    [][\A g \in GameIds :
          (Did("resolve_game") /\ last'.game_id = g /\ Ready(g)
              /\ last'.caller \in {cfg.owner, cfg.resolver}
              /\ last'.key \notin {DefaultKey, games[g].player1, games[g].player2})
          => last'.err = "InvalidWinner" /\ NothingChanged]_vars

\* C7 witness: the last request named a key that is not in a Ready game
\* between two different players and was refused with InvalidWinner.
C7_Witness ==
    /\ last.op = "resolve_game" /\ last.err = "InvalidWinner"
    /\ Ready(last.game_id)
    /\ games[last.game_id].player1 # games[last.game_id].player2
    /\ last.key \notin {DefaultKey, games[last.game_id].player1,
                        games[last.game_id].player2}

\* C8 as stated: create_lobby with stake > 0 and game_id different from
\* game_counter + 1 fails with BadGameId and changes nothing.
C8_BadGameIdAlways ==
    [][(Did("create_lobby") /\ last'.stake > 0
           /\ last'.game_id # cfg.game_counter + 1)
       => last'.err = "BadGameId" /\ NothingChanged]_vars

\* C8 amended: create_lobby with stake > 0 and game_id different from
\* game_counter + 1 fails and changes nothing; the error is BadGameId when
\* no game account exists at game_id, and the account-already-in-use error
\* of the account creation when one does (1 <= game_id <= game_counter).
C8_BadGameIdOrInUse ==
    [][(Did("create_lobby") /\ last'.stake > 0
           /\ last'.game_id # cfg.game_counter + 1)
       => /\ last'.err = (IF Exists(last'.game_id) THEN "AccountAlreadyInUse"
                          ELSE "BadGameId")
          /\ NothingChanged]_vars

\* C8 witness: a request with a positive stake for an id beyond
\* game_counter + 1 has just been refused with BadGameId.
C8_Witness ==
    /\ last.op = "create_lobby" /\ last.err = "BadGameId"
    /\ last.stake > 0
    /\ last.game_id > cfg.game_counter + 1

\* C9 as stated: on a Resolved record join_lobby fails with LobbyHasOpponent
\* and resolve_game by the owner or resolver fails with GameNotActive.
C9_AfterResolveAsStated ==
    [][\A g \in GameIds :
          (Resolved(g) /\ last'.game_id = g)
          => /\ Did("join_lobby") => last'.err = "LobbyHasOpponent"
             /\ (Did("resolve_game") /\ last'.caller \in {cfg.owner, cfg.resolver})
                   => last'.err = "GameNotActive"]_vars

\* C9 amended: a successful resolve_game leaves the record Resolved; on a
\* Resolved record join_lobby fails with GameNotActive (the active flag is
\* tested before the opponent), and resolve_game by the owner or resolver
\* fails with GameNotActive; neither changes anything.
C9_AfterResolveNotActive ==
    [][\A g \in GameIds :
          /\ (Succeeded("resolve_game") /\ last'.game_id = g /\ Ready(g))
                => Resolved(g)'
          /\ (Resolved(g) /\ last'.game_id = g)
                => /\ Did("join_lobby")
                        => last'.err = "GameNotActive" /\ NothingChanged
                   /\ (Did("resolve_game")
                          /\ last'.caller \in {cfg.owner, cfg.resolver})
                        => last'.err = "GameNotActive" /\ NothingChanged]_vars

\* C9 witness: join_lobby has just been refused on a Resolved record.
C9_Witness ==
    /\ last.op = "join_lobby" /\ last.err = "GameNotActive"
    /\ Resolved(last.game_id)

\* C10: join_lobby on a Ready record fails with LobbyHasOpponent for every
\* caller, debits nothing and leaves player2 and the escrow holding
\* unchanged.
C10_SecondJoinRejected ==
    [][\A g \in GameIds :
          (Did("join_lobby") /\ last'.game_id = g /\ Ready(g))
          => last'.err = "LobbyHasOpponent" /\ NothingChanged]_vars

\* C10 witness: a caller that could pay the stake has just been refused on a
\* Ready record.
C10_Witness ==
    /\ last.op = "join_lobby" /\ last.err = "LobbyHasOpponent"
    /\ Ready(last.game_id)
    /\ lamports[last.caller] >= games[last.game_id].bet_lamports

\* C11: once join_lobby has succeeded on a record (its player2 is set, the
\* record is Ready or Resolved), cancel_lobby on it fails for every caller,
\* player1 included, and changes no record and no balance.
C11_NoCancelAfterJoin ==
    [][\A g \in GameIds :
          (Did("cancel_lobby") /\ last'.game_id = g
              /\ (Ready(g) \/ Resolved(g)))
          => /\ last'.err = (IF Ready(g) THEN "LobbyHasOpponent"
                             ELSE "GameNotActive")
             /\ NothingChanged]_vars

\* C11 witness: player1 has just been refused the cancellation of a Ready
\* record.
C11_Witness ==
    /\ last.op = "cancel_lobby" /\ last.err = "LobbyHasOpponent"
    /\ Ready(last.game_id)
    /\ last.caller = games[last.game_id].player1

\* C12: set_resolver by a caller that is not the stored owner fails with
\* NotOwner and leaves the configuration unchanged; by the owner it succeeds
\* and stores the given resolver, whatever the previous one.
C12_SetResolverOwnerOnly ==
    [][Did("set_resolver") =>
          IF last'.caller # cfg.owner
          THEN last'.err = "NotOwner" /\ NothingChanged
          ELSE /\ last'.err = "Ok"
               /\ cfg' = [cfg EXCEPT !.resolver = last'.key]
               /\ UNCHANGED <<games, lamports>>]_vars

\* C12 witness: a resolver set earlier by the owner has survived a request
\* of another caller to replace it.
C12_Witness ==
    /\ last.op = "set_resolver" /\ last.err = "NotOwner"
    /\ last.caller # cfg.owner
    /\ cfg.resolver # DefaultKey
    /\ cfg.resolver # last.key

\* C13: the stored owner never changes; resolver changes only in a successful
\* set_resolver and game_counter only in a successful create_lobby;
\* join_lobby, cancel_lobby and resolve_game leave the configuration
\* unchanged.
C13_ConfigFrame ==
    [][/\ cfg'.owner = cfg.owner
       /\ cfg'.resolver # cfg.resolver => Succeeded("set_resolver")
       /\ cfg'.game_counter # cfg.game_counter => Succeeded("create_lobby")
       /\ (Did("join_lobby") \/ Did("cancel_lobby") \/ Did("resolve_game"))
             => cfg' = cfg]_vars

\* C13 witness: the owner has replaced the resolver after a game was created
\* and resolved.
C13_Witness ==
    /\ last.op = "set_resolver" /\ last.err = "Ok"
    /\ cfg.owner = Deployer
    /\ cfg.resolver # DefaultKey
    /\ cfg.game_counter > 0
    /\ \E g \in GameIds : Resolved(g)

\* C14 as stated: every record has stake > 0 and keeps the stake given at
\* creation; create_lobby with stake = 0 fails with StakeTooLow and changes
\* nothing.
C14_StakePositiveAsStated ==
    /\ [](\A g \in GameIds : games[g].exists => games[g].bet_lamports > 0)
    /\ [][/\ \A g \in GameIds :
                /\ games[g].exists => games'[g].bet_lamports = games[g].bet_lamports
                /\ (Succeeded("create_lobby") /\ last'.game_id = g)
                      => games'[g].bet_lamports = last'.stake
          /\ (Did("create_lobby") /\ last'.stake = 0)
                => last'.err = "StakeTooLow" /\ NothingChanged]_vars

\* C14 amended: every record has stake > 0 and keeps the stake given at
\* creation; create_lobby with stake = 0 fails and changes nothing, with
\* StakeTooLow when no game account exists at game_id and with the
\* account-already-in-use error of the account creation when one does.
C14_StakePositive ==
    /\ [](\A g \in GameIds : games[g].exists => games[g].bet_lamports > 0)
    /\ [][/\ \A g \in GameIds :
                /\ games[g].exists => games'[g].bet_lamports = games[g].bet_lamports
                /\ (Succeeded("create_lobby") /\ last'.game_id = g)
                      => games'[g].bet_lamports = last'.stake
          /\ (Did("create_lobby") /\ last'.stake = 0)
                => /\ last'.err = (IF Exists(last'.game_id)
                                   THEN "AccountAlreadyInUse" ELSE "StakeTooLow")
                   /\ NothingChanged]_vars

\* C14 witness: a request with stake 0 and the next free id has just been
\* refused with StakeTooLow while another game exists.
C14_Witness ==
    /\ last.op = "create_lobby" /\ last.err = "StakeTooLow"
    /\ last.stake = 0
    /\ last.game_id = cfg.game_counter + 1
    /\ cfg.game_counter > 0

\* C15: a request that fails leaves the configuration, every game record and
\* every balance as before; in particular create_lobby with the next game_id
\* and a positive stake by a caller that holds less than the stake fails
\* with the counter not raised and no record created, and join_lobby on an
\* Open record by a caller that holds less than the stake fails with
\* player2 still unset and the escrow holding unchanged.
C15_FailureChangesNothing ==
    [][/\ last'.err # "Ok" => NothingChanged
       /\ (Did("create_lobby") /\ last'.stake > 0
              /\ last'.game_id = cfg.game_counter + 1
              /\ lamports[last'.caller] < last'.stake)
             => /\ last'.err = "InsufficientFunds"
                /\ cfg'.game_counter = cfg.game_counter
                /\ ~games'[last'.game_id].exists
                /\ lamports' = lamports
       /\ \A g \in GameIds :
             (Did("join_lobby") /\ last'.game_id = g /\ Open(g)
                 /\ lamports[last'.caller] < games[g].bet_lamports)
             => /\ last'.err = "InsufficientFunds"
                /\ games'[g].player2 = DefaultKey
                /\ Holding(g)' = Holding(g)
                /\ lamports' = lamports]_vars

\* C15 witness: create_lobby with the next game_id has just failed because
\* the caller holds less than the stake.
C15_Witness ==
    /\ last.op = "create_lobby" /\ last.err = "InsufficientFunds"
    /\ last.game_id = cfg.game_counter + 1
    /\ lamports[last.caller] < last.stake
    /\ ~Exists(last.game_id)

\* C16: create_lobby requests of several callers execute one after another in
\* any order.  A request succeeds only for an id at which no record exists;
\* of the requests that carry the same game_id = game_counter + 1 (with a
\* positive stake their callers can pay) the first executed succeeds, and
\* every request for an id already allocated fails without debiting its
\* caller or changing the counter.
C16_OneWinnerPerId ==
    [][Did("create_lobby") =>
          /\ last'.err = "Ok" => ~Exists(last'.game_id)
          /\ (/\ last'.game_id = cfg.game_counter + 1
              /\ last'.game_id \in GameIds
              /\ last'.stake > 0
              /\ lamports[last'.caller] >= last'.stake)
                => /\ last'.err = "Ok"
                   /\ cfg'.game_counter = last'.game_id
                   /\ games'[last'.game_id].player1 = last'.caller
                   /\ lamports'[last'.caller] = lamports[last'.caller] - last'.stake
          /\ Exists(last'.game_id)
                => last'.err # "Ok" /\ NothingChanged]_vars

\* C16 witness: a caller that could pay has just lost the race for an id to
\* another caller, whose record holds that id.
C16_Witness ==
    /\ last.op = "create_lobby" /\ last.err = "AccountAlreadyInUse"
    /\ last.game_id = cfg.game_counter
    /\ last.stake > 0
    /\ lamports[last.caller] >= last.stake
    /\ games[last.game_id].player1 # last.caller

\* The lifecycle state of a record, as a function of active, player2 and
\* winner; "Invalid" for a combination that is none of the four.
Lifecycle(game) ==
    IF game.active /\ game.player2 = DefaultKey /\ game.winner = DefaultKey
        THEN "Open"
    ELSE IF game.active /\ game.player2 # DefaultKey /\ game.winner = DefaultKey
        THEN "Ready"
    ELSE IF ~game.active /\ game.player2 = DefaultKey /\ game.winner = DefaultKey
        THEN "Cancelled"
    ELSE IF ~game.active /\ game.player2 # DefaultKey
            /\ game.winner \in {game.player1, game.player2, DefaultKey}
        THEN "Resolved"
    ELSE "Invalid"

\* C17: every record is always in one of the four lifecycle states; a new
\* record is Open, and a record changes state only from Open to Ready in a
\* successful join_lobby on it, from Open to Cancelled in a successful
\* cancel_lobby on it, and from Ready to Resolved in a successful
\* resolve_game on it.
C17_Lifecycle ==
    /\ [](\A g \in GameIds : games[g].exists => Lifecycle(games[g]) # "Invalid")
    /\ [][\A g \in GameIds :
             IF ~games[g].exists
             THEN games'[g].exists => Lifecycle(games'[g]) = "Open"
             ELSE LET from == Lifecycle(games[g])
                      to == Lifecycle(games'[g])
                  IN
                  /\ games'[g].exists
                  /\ from # to =>
                       /\ last'.game_id = g
                       /\ \/ from = "Open" /\ to = "Ready" /\ Succeeded("join_lobby")
                          \/ from = "Open" /\ to = "Cancelled"
                                /\ Succeeded("cancel_lobby")
                          \/ from = "Ready" /\ to = "Resolved"
                                /\ Succeeded("resolve_game")]_vars

\* C17 witness: one record is Resolved with a participant as winner while
\* another is Cancelled.
C17_Witness ==
    \E g, h \in GameIds :
        /\ games[g].exists /\ games[h].exists
        /\ Lifecycle(games[g]) = "Resolved" /\ games[g].winner # DefaultKey
        /\ Lifecycle(games[h]) = "Cancelled"

\* C18: cancel_lobby on an Open record by a caller that is not its player1
\* fails with NotCreator and changes nothing; by player1 it succeeds, moves
\* exactly stake from the escrow holding to player1, sets active to false
\* and changes nothing else (player2 and winner stay unset).
C18_CancelByCreator ==
    [][\A g \in GameIds :
          (Did("cancel_lobby") /\ last'.game_id = g /\ Open(g))
          => IF last'.caller # games[g].player1
             THEN last'.err = "NotCreator" /\ NothingChanged
             ELSE /\ last'.err = "Ok"
                  /\ lamports' = [lamports EXCEPT
                        ![games[g].player1] = @ + games[g].bet_lamports,
                        ![game_pda(g)] = @ - games[g].bet_lamports]
                  /\ games' = [games EXCEPT ![g].active = FALSE]
                  /\ games'[g].player2 = DefaultKey
                  /\ games'[g].winner = DefaultKey
                  /\ cfg' = cfg]_vars

\* C18 witness: player1 has just cancelled its record.
C18_Witness ==
    /\ last.op = "cancel_lobby" /\ last.err = "Ok"
    /\ Cancelled(last.game_id)
    /\ last.caller = games[last.game_id].player1

\* ------------------------------------------------- stakes near the u64 limit
\* No behaviour of Spec holds a Ready record whose doubled stake passes the
\* u64 limit, as the escrow holding is itself a u64.  The doubling in
\* resolve_game is therefore applied to Ready records drawn directly: the
\* stake is the largest that doubles within u64, the smallest that does not,
\* or the u64 limit itself, and the game account holds whatever it may.
StakesNearLimit == {U64_MAX \div 2, U64_MAX \div 2 + 1, U64_MAX}

InitOverflow ==
    /\ \E resolver \in Pubkeys :
          cfg = [initialize_cfg(Deployer) EXCEPT !.resolver = resolver,
                                                 !.game_counter = 1]
    /\ \E player1 \in Signers, player2 \in Signers, stake \in StakesNearLimit :
          /\ games = [g \in GameIds |->
                        IF g = 1
                        THEN [create_lobby_game(player1, 1, stake)
                                 EXCEPT !.player2 = player2]
                        ELSE NoGame]
          /\ last = Call("join_lobby", player2, 1, DefaultKey, 0, "Ok")
    /\ \E held \in {2 * (U64_MAX \div 2), U64_MAX} :
          lamports = [acc \in Accounts |-> IF acc = game_pda(1) THEN held ELSE 0]

NextOverflow == ResolveGame

SpecOverflow == InitOverflow /\ [][NextOverflow]_vars

\* C19: resolve_game by the owner or resolver on a Ready record whose doubled
\* stake exceeds the u64 limit fails with Overflow for every winner argument
\* and changes no balance and no record.
C19_DoublingIsChecked ==
    [][\A g \in GameIds :
          (Did("resolve_game") /\ last'.game_id = g /\ Ready(g)
              /\ last'.caller \in {cfg.owner, cfg.resolver}
              /\ games[g].bet_lamports > U64_MAX \div 2)
          => last'.err = "Overflow" /\ NothingChanged]_vars

\* C19 witness: a request naming a key that is no participant has just been
\* refused with Overflow, not InvalidWinner, on a Ready record whose doubled
\* stake exceeds the u64 limit.
C19_Witness ==
    /\ last.op = "resolve_game" /\ last.err = "Overflow"
    /\ Ready(last.game_id)
    /\ 2 * games[last.game_id].bet_lamports > U64_MAX
    /\ last.key = Outsider

\* C20: no staked value is ever locked.  In every reachable state resolve_game
\* by the owner with winner = player1 (and the participants' own accounts)
\* succeeds on every Ready record and cancel_lobby by player1 succeeds on
\* every Open record; and the step that takes a record to Cancelled or
\* Resolved leaves its escrow holding at 0.
C20_NothingLocked ==
    /\ [](\A g \in GameIds :
             /\ Ready(g) => resolve_game_err(cfg.owner, g, games[g].player1,
                                games[g].player1, games[g].player2,
                                games[g].player1) = "Ok"
             /\ Open(g) => cancel_lobby_err(games[g].player1, g) = "Ok")
    /\ [][\A g \in GameIds :
             ((Succeeded("cancel_lobby") \/ Succeeded("resolve_game"))
                 /\ last'.game_id = g)
             => Holding(g)' = 0]_vars

====
